---------------------------- MODULE Spec2Model ----------------------------
(***************************************************************************)
(* Model of the TUN/TAP interface helpers of teavpn2                       *)
(* (helpers/linux/iface.c): tun_alloc, which opens the tun control node    *)
(* and binds an interface name to it, and raise_up_iface, which derives    *)
(* the prefix length, network and broadcast address of an IPv4             *)
(* configuration and runs the two /sbin/ip commands.                       *)
(*                                                                         *)
(* The program is single threaded: pc is the position of the one thread.   *)
(* Every system call (open, ioctl, system) is one step whose outcome is    *)
(* chosen by the environment.                                              *)
(***************************************************************************)
EXTENDS Integers, Sequences, FiniteSets

(***************************************************************************)
(* Bounds of the model.                                                    *)
(***************************************************************************)
MaxOpenFds == 3          \* descriptors the process may hold open at once
MaxNameLen == 17         \* longest requested interface name

(***************************************************************************)
(* Program constants.                                                      *)
(***************************************************************************)
IFNAMSIZ == 16           \* <linux/if.h>
EINVAL == 22             \* <errno.h>
WordBits == 32           \* width of __be32
Uint8Mod == 256          \* uint8_t cidr counts modulo 2^8
MaxCidr == 32            \* if (cidr > 32)

PrimaryPath == "/dev/net/tun"
LegacyPath == "/dev/tun"

VARIABLES
    pc,          \* position of the thread
    retried,     \* static bool retried            (tun_alloc)
    tun_dev,     \* static const char *tun_dev     (tun_alloc)
    dev,         \* argument dev of the running / last tun_alloc call
    flags,       \* argument flags of the running / last tun_alloc call
    ifr,         \* struct ifreq ifr of tun_alloc
    fd,          \* local fd of tun_alloc
    ret,         \* value returned by the last tun_alloc call
    openFds,     \* descriptors opened by tun_alloc that are still open
    returned,    \* history: descriptors returned to callers as successes
    opens,       \* history: open() attempts of the running / last call
    ioctls,      \* history: TUNSETIFF calls of the running / last call
    switches,    \* history: number of switches to the legacy path
    host_le,     \* the build's byte order: TRUE on a little-endian host
    iface,       \* struct srv_iface_cfg of the server, the argument of raise_up_iface
    b_ipv4,              \* __be32 locals of raise_up_iface, as host words
    b_ipv4_netmask,
    b_ipv4_network,
    b_ipv4_broadcast,
    cidr,                \* uint8_t cidr
    shifts,              \* history: iterations of the shift loop
    u_ipv4,              \* text buffers of raise_up_iface
    u_ipv4_network,
    u_ipv4_broadcast,
    cmds,        \* history: commands run by system() in the running / last call
    exitAt,      \* history: the return statement the last call left by
    result       \* value returned by the last raise_up_iface call

allocVars == <<retried, tun_dev, dev, flags, ifr, fd, ret, openFds,
               returned, opens, ioctls, switches>>

ifaceVars == <<iface, b_ipv4, b_ipv4_netmask, b_ipv4_network, b_ipv4_broadcast,
               cidr, shifts, u_ipv4, u_ipv4_network, u_ipv4_broadcast, cmds,
               exitAt, result>>

vars == <<pc, host_le, allocVars, ifaceVars>>

(***************************************************************************)
(* Inputs of tun_alloc.                                                    *)
(***************************************************************************)
NameOfLen(n) == [i \in 1..n |-> IF i % 2 = 1 THEN "t" ELSE "n"]

NullDev == [isnull |-> TRUE, s |-> <<>>]

DevArgs == {NullDev} \cup {[isnull |-> FALSE, s |-> NameOfLen(n)] : n \in 0..MaxNameLen}

FlagArgs == {"IFF_TUN", "IFF_TAP"}

OpenErrnos == {"ENOENT", "EACCES", "EMFILE"}

(***************************************************************************)
(* Helpers of tun_alloc.                                                   *)
(***************************************************************************)
IsInvalidDev_NullOnly(d) == d.isnull

\* (dev == NULL) || (*dev == '\0')
IsInvalidDev(d) == d.isnull \/ d.s = <<>>

\* strncpy(dst, src, n) into a zeroed buffer: the first n characters of src
Strncpy(s, n) == IF Len(s) <= n THEN s ELSE SubSeq(s, 1, n)

FallbackEligible_NoGuard(r, e) == e = "ENOENT"

FallbackEligible_AnyErrno(r, e) == ~r

\* (!retried) && (tmp_err == ENOENT)
FallbackEligible(r, e) == (~r) /\ e = "ENOENT"

CloseFd_Leak(fds, f) == fds

\* close(fd)
CloseFd(fds, f) == fds \ {f}

\* open() returns the lowest descriptor that is not open
LowestFree(fds) ==
    CHOOSE n \in 0..MaxOpenFds : n \notin fds /\ \A m \in 0..(n - 1) : m \in fds

\* Entry of tun_alloc up to the open(): the argument check and the ifreq setup
TunAllocEntry(d, f) ==
    IF IsInvalidDev(d)
    THEN /\ ret' = -EINVAL
         /\ pc' = "idle"
         /\ UNCHANGED ifr
    ELSE /\ ifr' = [ifr_name |-> Strncpy(d.s, IFNAMSIZ - 1), ifr_flags |-> f]
         /\ pc' = "tun_open"
         /\ UNCHANGED ret

(***************************************************************************)
(* 32-bit words.  A word is the sequence of the WordBits \div 8 bytes of   *)
(* the host integer, w[1] being the least significant byte.  An address in *)
(* memory is a sequence of 4 bytes in address order (network order for a   *)
(* __be32).                                                                *)
(***************************************************************************)
RECURSIVE Pow2(_)
Pow2(n) == IF n = 0 THEN 1 ELSE 2 * Pow2(n - 1)

ZeroWord == <<0, 0, 0, 0>>

\* the host integer read from 4 bytes of memory
WordOfBytes(mem, le) ==
    IF le THEN <<mem[1], mem[2], mem[3], mem[4]>>
          ELSE <<mem[4], mem[3], mem[2], mem[1]>>

\* the 4 bytes of memory a host integer is stored as
BytesOfWord(w, le) ==
    IF le THEN <<w[1], w[2], w[3], w[4]>>
          ELSE <<w[4], w[3], w[2], w[1]>>

\* x & y and x | y on bytes, bit by bit
RECURSIVE ByteAnd(_, _, _)
ByteAnd(x, y, n) ==
    IF n = 0 THEN 0
    ELSE (x % 2) * (y % 2) + 2 * ByteAnd(x \div 2, y \div 2, n - 1)

RECURSIVE ByteOr(_, _, _)
ByteOr(x, y, n) ==
    IF n = 0 THEN 0
    ELSE (IF x % 2 = 1 \/ y % 2 = 1 THEN 1 ELSE 0)
         + 2 * ByteOr(x \div 2, y \div 2, n - 1)

\* a & b, a | b, ~a, a >> 1 and a != 0 on unsigned 32-bit words
And32(a, b) ==
    <<ByteAnd(a[1], b[1], 8), ByteAnd(a[2], b[2], 8),
      ByteAnd(a[3], b[3], 8), ByteAnd(a[4], b[4], 8)>>

Or32(a, b) ==
    <<ByteOr(a[1], b[1], 8), ByteOr(a[2], b[2], 8),
      ByteOr(a[3], b[3], 8), ByteOr(a[4], b[4], 8)>>

Not32(a) == <<255 - a[1], 255 - a[2], 255 - a[3], 255 - a[4]>>

Shr1(a) ==
    <<a[1] \div 2 + 128 * (a[2] % 2), a[2] \div 2 + 128 * (a[3] % 2),
      a[3] \div 2 + 128 * (a[4] % 2), a[4] \div 2>>

NonZero(a) == \E i \in 1..4 : a[i] # 0

(***************************************************************************)
(* Helpers of raise_up_iface.  A dotted-quad text is the sequence of its   *)
(* decimal fields; a text with a CIDR suffix is [addr, prefix], prefix -1  *)
(* meaning that no suffix was appended.                                    *)
(***************************************************************************)
\* inet_pton(AF_INET, text, &word) returns 1: four fields, each 0..255
PtonOk(text) == Len(text) = 4 /\ \A j \in 1..Len(text) : text[j] \in 0..255

\* the word inet_pton stores: the fields as bytes in network order
Pton(text, le) == WordOfBytes(text, le)

\* the text inet_ntop renders from the word's bytes
Ntop(w, le) == BytesOfWord(w, le)

CidrInc_ByByte(c) == (c + 8) % Uint8Mod

\* cidr++ on a uint8_t
CidrInc(c) == (c + 1) % Uint8Mod

\* while (tmp) { cidr++; tmp >>= 1; }
RECURSIVE CidrLoop(_, _, _)
CidrLoop(tmp, c, n) ==
    IF NonZero(tmp)
    THEN CidrLoop(Shr1(tmp), CidrInc(c), n + 1)
    ELSE [cidr |-> c, shifts |-> n]

NetworkOf_Or(ip, mask) == Or32(ip, mask)

\* b_ipv4_network = (b_ipv4 & b_ipv4_netmask)
NetworkOf(ip, mask) == And32(ip, mask)

BroadcastOf_NoInvert(net, mask) == Or32(net, mask)

\* b_ipv4_broadcast = b_ipv4_network | (~b_ipv4_netmask)
BroadcastOf(net, mask) == Or32(net, Not32(mask))

\* snprintf(buf + strnlen(buf), ..., "/%d", cidr)
AppendCidr(text, c) == [addr |-> text.addr, prefix |-> c]

PlainText(fields) == [addr |-> fields, prefix |-> -1]

\* escapeshellarg(buf, str, strlen(str), NULL): str in single quotes
simple_esc_arg(str) == <<"'", str, "'">>

CmdFailed_Unchecked(r) == FALSE

CmdFailed_NonZero(r) == r # 0

\* if (ret < 0) return false;
CmdFailed(r) == r < 0

LinkUpFormat == "/sbin/ip link set dev %s up mtu %d"
AddrAddFormat == "/sbin/ip addr add dev %s %s broadcast %s"

(***************************************************************************)
(* Inputs of raise_up_iface.                                               *)
(***************************************************************************)
\* the netmask with k leading one-bits, as dotted-quad fields
ContigMask(k) ==
    [j \in 1..4 |->
        LET ones == IF k - 8 * (j - 1) < 0 THEN 0
                    ELSE IF k - 8 * (j - 1) > 8 THEN 8 ELSE k - 8 * (j - 1)
        IN  256 - Pow2(8 - ones)]

Ipv4Texts ==
    { <<192, 168, 1, 5>>, <<10, 0, 0, 1>>, <<172, 16, 254, 129>>,
      <<0, 0, 0, 0>>, <<255, 255, 255, 255>>,
      <<10, 0, 1>>, <<256, 1, 1, 1>> }

NetmaskTexts ==
    { ContigMask(k) : k \in 0..WordBits }
    \cup { <<a, b, c, d>> : a, b, c, d \in {0, 255} }
    \cup { <<0, 0, 0, 1>>, <<0, 0, 0, 128>>, <<255, 255, 255, 127>>, <<1, 2, 3, 4>>,
           <<255, 255, 0, 252>>, <<0, 1, 0, 0>> }
    \cup { <<255, 255, 255>>, <<255, 255, 255, 256>> }

IfaceCfgs ==
    [dev : {"teavpn2"}, ipv4 : Ipv4Texts, ipv4_netmask : NetmaskTexts, mtu : {1500}]

SystemRets == {-1, 0, 256}

InitAlloc ==
    /\ pc = "idle"
    /\ retried = FALSE
    /\ tun_dev = PrimaryPath
    /\ dev = NullDev
    /\ flags = "IFF_TUN"
    /\ ifr = [ifr_name |-> <<>>, ifr_flags |-> "IFF_TUN"]
    /\ fd = -1
    /\ ret = 0
    /\ openFds = {}
    /\ returned = {}
    /\ opens = <<>>
    /\ ioctls = <<>>
    /\ switches = 0

InitIface ==
    /\ b_ipv4 = ZeroWord
    /\ b_ipv4_netmask = ZeroWord
    /\ b_ipv4_network = ZeroWord
    /\ b_ipv4_broadcast = ZeroWord
    /\ cidr = 0
    /\ shifts = 0
    /\ u_ipv4 = PlainText(<<>>)
    /\ u_ipv4_network = PlainText(<<>>)
    /\ u_ipv4_broadcast = PlainText(<<>>)
    /\ cmds = <<>>
    /\ exitAt = "none"
    /\ result = "none"

\* tun_alloc alone: one server configuration on a little-endian host
Init ==
    /\ InitAlloc
    /\ InitIface
    /\ host_le = TRUE
    /\ iface = [dev |-> "teavpn2", ipv4 |-> <<10, 0, 0, 1>>,
                ipv4_netmask |-> <<255, 0, 0, 0>>, mtu |-> 1500]

\* raise_up_iface: every configuration of IfaceCfgs on either byte order
InitCfg ==
    /\ InitAlloc
    /\ InitIface
    /\ host_le \in BOOLEAN
    /\ iface \in IfaceCfgs

(***************************************************************************)
(* tun_alloc                                                               *)
(***************************************************************************)
\* A caller calls tun_alloc(d, f)
TunAllocCall ==
    /\ pc = "idle"
    /\ \E d \in DevArgs, f \in FlagArgs :
         /\ dev' = d
         /\ flags' = f
         /\ TunAllocEntry(d, f)
    /\ opens' = <<>>
    /\ ioctls' = <<>>
    /\ UNCHANGED <<retried, tun_dev, fd, openFds, returned, switches>>
    /\ UNCHANGED <<host_le, ifaceVars>>

\* fd = open(tun_dev, O_RDWR) and the handling of its failure
TunAllocOpen ==
    /\ pc = "tun_open"
    /\ \/ /\ Cardinality(openFds) < MaxOpenFds
          /\ fd' = LowestFree(openFds)
          /\ openFds' = openFds \cup {fd'}
          /\ opens' = Append(opens, [path |-> tun_dev, err |-> "OK", retried |-> retried])
          /\ pc' = "tun_ioctl"
          /\ UNCHANGED <<retried, tun_dev, dev, flags, ifr, ret, returned, ioctls, switches>>
       \/ \E e \in OpenErrnos :
          /\ fd' = -1
          /\ opens' = Append(opens, [path |-> tun_dev, err |-> e, retried |-> retried])
          /\ IF FallbackEligible(retried, e)
             THEN /\ retried' = ~retried
                  /\ tun_dev' = LegacyPath
                  /\ switches' = switches + 1
                  /\ TunAllocEntry(dev, flags)
             ELSE /\ ret' = fd'
                  /\ pc' = "idle"
                  /\ UNCHANGED <<retried, tun_dev, switches, ifr>>
          /\ UNCHANGED <<dev, flags, openFds, returned, ioctls>>
    /\ UNCHANGED <<host_le, ifaceVars>>

\* retval = ioctl(fd, TUNSETIFF, &ifr) and the handling of its failure
TunAllocIoctl ==
    /\ pc = "tun_ioctl"
    /\ \E retval \in {-1, 0} :
         /\ ioctls' = Append(ioctls, [fd |-> fd, ifr_name |-> ifr.ifr_name,
                                      ifr_flags |-> ifr.ifr_flags, retval |-> retval])
         /\ IF retval < 0
            THEN /\ openFds' = CloseFd(openFds, fd)
                 /\ ret' = retval
                 /\ UNCHANGED returned
            ELSE /\ ret' = fd
                 /\ returned' = returned \cup {fd}
                 /\ UNCHANGED openFds
    /\ pc' = "idle"
    /\ UNCHANGED <<retried, tun_dev, dev, flags, ifr, fd, opens, switches>>
    /\ UNCHANGED <<host_le, ifaceVars>>

NextAlloc == TunAllocCall \/ TunAllocOpen \/ TunAllocIoctl

SpecAlloc == Init /\ [][NextAlloc]_vars

(***************************************************************************)
(* raise_up_iface                                                          *)
(***************************************************************************)
\* A caller calls raise_up_iface(&iface): the locals are initialised, the
\* netmask and the address are parsed, the prefix length, the network and the
\* broadcast address are derived and rendered, up to the first system()
RaiseUpIface ==
    /\ pc = "idle"
    /\ LET cfg == iface
           maskOk == PtonOk(cfg.ipv4_netmask)
             mask == IF maskOk THEN Pton(cfg.ipv4_netmask, host_le) ELSE ZeroWord
             loop == CidrLoop(mask, 0, 0)
             cidrOk == maskOk /\ ~(loop.cidr > MaxCidr)
             ipOk == cidrOk /\ PtonOk(cfg.ipv4)
             ip == IF ipOk THEN Pton(cfg.ipv4, host_le) ELSE ZeroWord
             net == IF ipOk THEN NetworkOf(ip, mask) ELSE ZeroWord
             bcast == IF ipOk THEN BroadcastOf(net, mask) ELSE ZeroWord
         IN  /\ b_ipv4_netmask' = mask
             /\ cidr' = IF maskOk THEN loop.cidr ELSE 0
             /\ shifts' = IF maskOk THEN loop.shifts ELSE 0
             /\ b_ipv4' = ip
             /\ b_ipv4_network' = net
             /\ b_ipv4_broadcast' = bcast
             /\ u_ipv4' = IF ipOk THEN AppendCidr(PlainText(cfg.ipv4), loop.cidr)
                          ELSE PlainText(cfg.ipv4)
             /\ u_ipv4_network' =
                    IF ipOk THEN AppendCidr(PlainText(Ntop(net, host_le)), loop.cidr)
                    ELSE PlainText(<<>>)
             /\ u_ipv4_broadcast' =
                    IF ipOk THEN PlainText(Ntop(bcast, host_le)) ELSE PlainText(<<>>)
             /\ exitAt' = IF ~maskOk THEN "bad_netmask"
                          ELSE IF ~cidrOk THEN "bad_cidr"
                          ELSE IF ~ipOk THEN "bad_ipv4"
                          ELSE "none"
             /\ result' = IF ipOk THEN "none" ELSE "false"
             /\ pc' = IF ipOk THEN "exec_link_up" ELSE "idle"
    /\ cmds' = <<>>
    /\ UNCHANGED <<host_le, allocVars, iface>>

\* EXEC_CMD(ret, buf, "/sbin/ip link set dev %s up mtu %d", e_dev, mtu)
ExecLinkUp ==
    /\ pc = "exec_link_up"
    /\ \E r \in SystemRets :
         /\ cmds' = Append(cmds, [format |-> LinkUpFormat,
                                  args |-> <<simple_esc_arg(iface.dev), iface.mtu>>,
                                  ret |-> r])
         /\ IF CmdFailed(r)
            THEN pc' = "idle" /\ result' = "false" /\ exitAt' = "link_up_failed"
            ELSE pc' = "exec_addr_add" /\ UNCHANGED <<result, exitAt>>
    /\ UNCHANGED <<host_le, allocVars, iface, b_ipv4, b_ipv4_netmask, b_ipv4_network,
                   b_ipv4_broadcast, cidr, shifts, u_ipv4, u_ipv4_network,
                   u_ipv4_broadcast>>

\* EXEC_CMD(ret, buf, "/sbin/ip addr add dev %s %s broadcast %s", ...)
ExecAddrAdd ==
    /\ pc = "exec_addr_add"
    /\ \E r \in SystemRets :
         /\ cmds' = Append(cmds, [format |-> AddrAddFormat,
                                  args |-> <<simple_esc_arg(iface.dev),
                                             simple_esc_arg(u_ipv4),
                                             simple_esc_arg(u_ipv4_broadcast)>>,
                                  ret |-> r])
         /\ IF CmdFailed(r)
            THEN result' = "false" /\ exitAt' = "addr_add_failed"
            ELSE result' = "true" /\ exitAt' = "done"
    /\ pc' = "idle"
    /\ UNCHANGED <<host_le, allocVars, iface, b_ipv4, b_ipv4_netmask, b_ipv4_network,
                   b_ipv4_broadcast, cidr, shifts, u_ipv4, u_ipv4_network,
                   u_ipv4_broadcast>>

NextIface == RaiseUpIface \/ ExecLinkUp \/ ExecAddrAdd

SpecIface == InitCfg /\ [][NextIface]_vars

(***************************************************************************)
(* Properties of tun_alloc                                                 *)
(***************************************************************************)
IsOpenFailure(i) == opens[i].err # "OK"

\* C1: a call makes at most two open attempts; a "not found" failure of the
\* primary path before any fallback is followed by exactly one more attempt,
\* on the legacy path; the switch happens at most once per process; after it
\* every call opens the legacy path and never the primary path.
C1_FallbackOnce ==
    /\ Len(opens) <= 2
    /\ switches <= 1
    /\ retried => tun_dev = LegacyPath
    /\ (~retried) => (tun_dev = PrimaryPath /\ switches = 0)
    /\ \A i \in 1..Len(opens) :
         /\ (opens[i].path = PrimaryPath /\ opens[i].err = "ENOENT" /\ ~opens[i].retried)
              => /\ i = 1
                 /\ retried
                 /\ Len(opens) = 1 => pc = "tun_open"
                 /\ Len(opens) = 2 => opens[2].path = LegacyPath
         /\ opens[i].retried => opens[i].path = LegacyPath
         /\ opens[i].path = PrimaryPath => (i = 1 /\ ~opens[i].retried)

\* C1 witness: a call made after the fallback has returned a handle, having
\* opened only the legacy path.
C1_Witness ==
    /\ pc = "idle"
    /\ switches = 1
    /\ Len(opens) = 1
    /\ opens[1].retried
    /\ opens[1].path = LegacyPath
    /\ ret >= 0

\* C2: the descriptors left open by tun_alloc are exactly those returned as
\* successes; when TUNSETIFF fails the descriptor opened in that call is
\* closed before the negative result is returned.
C2_NoLeak ==
    /\ returned \subseteq openFds
    /\ pc \in {"idle", "tun_open"} => openFds = returned
    /\ pc = "tun_ioctl" => (fd \notin returned /\ openFds = returned \cup {fd})
    /\ \A i \in 1..Len(ioctls) :
         ioctls[i].retval < 0 =>
           (pc = "idle" /\ ret < 0 /\ ioctls[i].fd \notin openFds)

\* C2 witness: TUNSETIFF failed on the descriptor opened by the fallback retry
\* while an earlier handle is still held by a caller.
C2_Witness ==
    /\ pc = "idle"
    /\ Len(opens) = 2
    /\ Len(ioctls) = 1
    /\ ioctls[1].retval < 0
    /\ returned # {}

\* C3: a call with a null or empty name returns -EINVAL, makes no open attempt
\* and no TUNSETIFF call, and leaves retried and tun_dev unchanged.
C3_EmptyNameRejected ==
    [][ (pc = "idle" /\ (dev'.isnull \/ Len(dev'.s) = 0))
          => /\ pc' = "idle"
             /\ ret' = -EINVAL
             /\ opens' = <<>>
             /\ ioctls' = <<>>
             /\ retried' = retried
             /\ tun_dev' = tun_dev
             /\ switches' = switches
             /\ openFds' = openFds ]_vars

\* C3 witness: the empty name was rejected after a fallback had happened and
\* while a handle is open.
C3_Witness ==
    /\ pc = "idle"
    /\ ~dev.isnull
    /\ Len(dev.s) = 0
    /\ ret = -EINVAL
    /\ retried
    /\ openFds # {}

\* C7: the name passed to TUNSETIFF is exactly the requested name, and a name
\* longer than IFNAMSIZ - 1 characters is rejected with -EINVAL and never bound.
C7_BoundNameIsRequested ==
    /\ \A i \in 1..Len(ioctls) : ioctls[i].ifr_name = dev.s
    /\ (Len(dev.s) > IFNAMSIZ - 1) => (pc = "idle" /\ ret = -EINVAL /\ opens = <<>>)

\* C7, the part the code keeps: a handle returned for a name that fits the
\* interface-name limit is bound under exactly that name.
C7_FittingNameBound ==
    \A i \in 1..Len(ioctls) :
        Len(dev.s) <= IFNAMSIZ - 1 => ioctls[i].ifr_name = dev.s

\* The step of an open() failure that is not eligible for the fallback returns
\* a negative result and changes neither retried nor tun_dev.
C10_TerminalStep ==
    (pc = "tun_open" /\ Len(opens') = Len(opens) + 1
       /\ opens'[Len(opens')].err # "OK"
       /\ ~(opens'[Len(opens')].err = "ENOENT" /\ ~retried))
    => /\ pc' = "idle"
       /\ ret' < 0
       /\ retried' = retried
       /\ tun_dev' = tun_dev
       /\ switches' = switches
       /\ ioctls' = ioctls
       /\ openFds' = openFds

\* C10: an open failure that is not eligible for the fallback ends the call:
\* no further open attempt, no TUNSETIFF call, a negative result, and retried
\* and tun_dev as they were.
C10_OpenFailureTerminal ==
    /\ [](\A i \in 1..Len(opens) :
            (IsOpenFailure(i) /\ ~(opens[i].err = "ENOENT" /\ ~opens[i].retried))
              => (i = Len(opens) /\ pc = "idle" /\ ret < 0 /\ ioctls = <<>>))
    /\ [][C10_TerminalStep]_vars

\* C10 witness: "not found" on the legacy path during the retry itself.
C10_Witness ==
    /\ pc = "idle"
    /\ Len(opens) = 2
    /\ opens[2].path = LegacyPath
    /\ opens[2].err = "ENOENT"
    /\ ret < 0
    /\ openFds # {}

(***************************************************************************)
(* Properties of raise_up_iface                                            *)
(***************************************************************************)
\* raise_up_iface has been called
Called == pc # "idle" \/ exitAt # "none"

\* a dotted-quad text that denotes a 32-bit value
ValidQuad(t) == Len(t) = 4 /\ \A j \in 1..Len(t) : t[j] >= 0 /\ t[j] <= 255

\* the call got past both inet_pton calls and the prefix check
Derived == Called /\ exitAt \notin {"bad_netmask", "bad_cidr", "bad_ipv4"}

\* reference subnet arithmetic on octets, by the sets of their one-bits
OctetBits(x) == {k \in 0..7 : (x \div Pow2(k)) % 2 = 1}

RECURSIVE OctetOfBits(_)
OctetOfBits(S) ==
    IF S = {} THEN 0
    ELSE LET k == CHOOSE k \in S : TRUE IN Pow2(k) + OctetOfBits(S \ {k})

RefNetwork(ip, mask) ==
    [j \in 1..4 |-> OctetOfBits(OctetBits(ip[j]) \cap OctetBits(mask[j]))]

RefBroadcast(ip, mask) ==
    [j \in 1..4 |->
        OctetOfBits((OctetBits(ip[j]) \cap OctetBits(mask[j]))
                    \cup ((0..7) \ OctetBits(mask[j])))]

\* C4: when the link-up command returns a negative status the call returns
\* false and the address-add command is not run.
C4_LinkUpFailureAborts ==
    (Len(cmds) >= 1 /\ cmds[1].ret < 0)
      => (Len(cmds) = 1 /\ pc = "idle" /\ result = "false")

\* C4 witness: the link-up command was run and failed.
C4_Witness ==
    /\ pc = "idle"
    /\ Len(cmds) = 1
    /\ cmds[1].format = LinkUpFormat
    /\ cmds[1].ret = -1
    /\ result = "false"

\* C5: on a little-endian host the derived prefix length of the netmask with
\* k leading one-bits is k, for every k in 0..32.
C5_PrefixIsLeadingOnes ==
    \A k \in 0..WordBits :
        (host_le /\ Called /\ iface.ipv4_netmask = ContigMask(k))
          => (exitAt # "bad_netmask" /\ cidr = k)

\* C5, what the code derives instead on a little-endian host: k rounded up to
\* a whole number of octets.
C5_PrefixIsOctetRounded ==
    \A k \in 0..WordBits :
        (host_le /\ Called /\ iface.ipv4_netmask = ContigMask(k))
          => (exitAt # "bad_netmask" /\ cidr = 8 * ((k + 7) \div 8))

\* C6: network = ipv4 AND netmask and broadcast = network OR (NOT netmask),
\* octet by octet, and the address-add command carries that broadcast.
C6_SubnetArithmetic ==
    Derived =>
      /\ u_ipv4_network.addr = RefNetwork(iface.ipv4, iface.ipv4_netmask)
      /\ u_ipv4_broadcast.addr = RefBroadcast(iface.ipv4, iface.ipv4_netmask)
      /\ BytesOfWord(b_ipv4_network, host_le) = RefNetwork(iface.ipv4, iface.ipv4_netmask)
      /\ BytesOfWord(b_ipv4_broadcast, host_le) = RefBroadcast(iface.ipv4, iface.ipv4_netmask)
      /\ \A i \in 1..Len(cmds) :
           cmds[i].format = AddrAddFormat =>
             cmds[i].args[3][2] =
               [addr |-> RefBroadcast(iface.ipv4, iface.ipv4_netmask), prefix |-> -1]
      /\ (iface.ipv4 = <<10, 0, 0, 1>> /\ iface.ipv4_netmask = <<255, 0, 0, 0>>)
           => /\ u_ipv4_network.addr = <<10, 0, 0, 0>>
              /\ u_ipv4_broadcast.addr = <<10, 255, 255, 255>>
      /\ (iface.ipv4 = <<192, 168, 1, 5>> /\ iface.ipv4_netmask = <<255, 255, 255, 0>>)
           => /\ u_ipv4_network.addr = <<192, 168, 1, 0>>
              /\ u_ipv4_broadcast.addr = <<192, 168, 1, 255>>

\* C6 witness: 10.0.0.1 with 255.0.0.0 was configured and both commands ran.
C6_Witness ==
    /\ pc = "idle"
    /\ result = "true"
    /\ iface.ipv4 = <<10, 0, 0, 1>>
    /\ iface.ipv4_netmask = <<255, 0, 0, 0>>
    /\ u_ipv4_broadcast.addr = <<10, 255, 255, 255>>
    /\ Len(cmds) = 2

\* C8: for every netmask that parses, the derived prefix length is in 0..32,
\* the 8-bit counter equals the number of shifts (it never wrapped), and the
\* call does not leave by the prefix-out-of-range return.
C8_PrefixInRange ==
    (Called /\ ValidQuad(iface.ipv4_netmask))
      => /\ cidr >= 0
         /\ cidr <= 32
         /\ cidr = shifts
         /\ exitAt \notin {"bad_netmask", "bad_cidr"}

\* C8 witness: a discontiguous netmask whose word has its top byte set.
C8_Witness ==
    /\ Called
    /\ host_le
    /\ iface.ipv4_netmask = <<1, 2, 3, 4>>
    /\ cidr = 27
    /\ exitAt # "bad_cidr"

\* C9: the commands run by a call are a prefix of [link-up, address-add]; none
\* is run when the netmask or the address does not parse; address-add is run
\* only after link-up returned a non-negative status; the call returns true
\* exactly when both were run and both returned a non-negative status.
C9_CommandSequence ==
    /\ Len(cmds) <= 2
    /\ Len(cmds) >= 1 => cmds[1].format = LinkUpFormat
    /\ Len(cmds) = 2 => (cmds[2].format = AddrAddFormat /\ cmds[1].ret >= 0)
    /\ (Called /\ ~(ValidQuad(iface.ipv4_netmask) /\ ValidQuad(iface.ipv4)))
         => (cmds = <<>> /\ result = "false" /\ pc = "idle")
    /\ pc # "idle" => result = "none"
    /\ pc = "exec_addr_add" => Len(cmds) = 1
    /\ pc = "exec_link_up" => Len(cmds) = 0
    /\ (pc = "idle" /\ Called)
         => /\ result \in {"true", "false"}
            /\ result = "true"
                 <=> (Len(cmds) = 2 /\ cmds[1].ret >= 0 /\ cmds[2].ret >= 0)

\* C9 witness: both commands ran, the first with a positive (non-zero exit)
\* status, and the call returned true.
C9_Witness ==
    /\ pc = "idle"
    /\ Len(cmds) = 2
    /\ cmds[1].ret = 256
    /\ cmds[2].ret = 0
    /\ result = "true"

=============================================================================
